---- MODULE Spec2Model ----
(***************************************************************************)
(* Model of the weather dashboard in src/app.py:                           *)
(*   - format_unix_time            (specification SpecFmt)                 *)
(*   - create_forecast_dataframe   (specification SpecAgg)                 *)
(*   - get_weather_data behind @st.cache_data(ttl=600) and the script's    *)
(*     main flow, run by several user sessions (specification Spec)        *)
(***************************************************************************)
EXTENDS Integers, Sequences, FiniteSets, TLC

VARIABLES
    clock,            \* the cache's timer (time.monotonic), in seconds
    cache,            \* st.cache_data's store for get_weather_data: value key -> entry
    value_locks,      \* the cache's per-key compute locks: value key -> holder
    sess,             \* per user session: the script run's position and locals
    calls,            \* number of "Get Weather" presses so far
    window_gets,      \* per key and endpoint: GETs issued for the entry's window
    timestamp,        \* format_unix_time: argument timestamp
    timezone_offset,  \* format_unix_time: argument timezone_offset
    time_str,         \* format_unix_time: returned string, NotRun before the call
    forecast_list,    \* create_forecast_dataframe: forecast_data['list']
    tz_local,         \* UTC offset of the process's local time zone (datetime.fromtimestamp)
    agg_pc,           \* "input" while the list is built, "done" after the call
    daily_forecast    \* create_forecast_dataframe: outcome of the call

aggVars == <<forecast_list, tz_local, agg_pc, daily_forecast>>
fmtVars == <<timestamp, timezone_offset, time_str>>
appVars == <<clock, cache, value_locks, sess, calls, window_gets>>
vars == <<appVars, fmtVars, aggVars>>

NotRun == "not run"

(***************************************************************************)
(* get_weather_data behind @st.cache_data(ttl=600) (src/app.py 15-36) and  *)
(* the script's main flow (src/app.py 81-176), one script run per press of *)
(* "Get Weather", each user session running its script on its own thread.  *)
(*                                                                         *)
(* st.cache_data, as the decorator of line 15 configures it: the value key *)
(* is made of the call's arguments (city, unit); an entry lives ttl = 600  *)
(* seconds from the moment it is written; a call first reads the cache     *)
(* without a lock, and on a miss takes the key's compute lock, reads       *)
(* again, and only on a second miss runs the function and writes the       *)
(* returned value, whole, under the lock.                                  *)
(* Every GET is taken to complete with an HTTP response carrying a JSON    *)
(* body; transport exceptions are outside the model.                       *)
(***************************************************************************)
TTL == 600
TickSeconds == 300
MaxClock == 900
MaxCalls == 2

Sessions == {"s1", "s2"}
Cities == {"London", "Paris"}
CityInputs == Cities \cup {""}
Units == {"metric", "imperial"}
\* What the users ask for: two places, one of them in both unit systems.
Queries == {<<"London", "metric">>, <<"London", "imperial">>, <<"Paris", "metric">>}
Endpoints == {"current", "forecast"}

\* The cache's value key: the arguments of the call.
ValueKey(city, unit) == <<city, unit>>

Keys == {ValueKey(c, u) : c \in Cities, u \in Units}

NoData == [none |-> TRUE]
NoEntry == [present |-> FALSE, stored |-> 0, args |-> <<"", "">>, value |-> NoData]
NoResponse == [status |-> 0, json |-> NoData]
NoView == [kind |-> "none", error |-> "", format_calls |-> 0, forecast_calls |-> 0]
NoHolder == "free"

IdleSession ==
    [pc |-> "idle", city |-> "", unit |-> "", call |-> 0,
     current_response |-> NoResponse, forecast_response |-> NoResponse,
     data |-> NoData, gets |-> {}, seen |-> NoEntry, seen_age |-> 0,
     view |-> NoView]

InitApp ==
    /\ clock = 0
    /\ cache = [k \in Keys |-> NoEntry]
    /\ value_locks = [k \in Keys |-> NoHolder]
    /\ sess = [s \in Sessions |-> IdleSession]
    /\ calls = 0
    /\ window_gets = [k \in Keys |-> [e \in Endpoints |-> 0]]

\* What the provider may answer to requests.get(url, params): 200 with the
\* data of the place in the unit asked (tagged with the call that asked), or
\* an error status whose body holds a 'message' field or none.
Responses(endpoint, city, unit, call) ==
    {[status |-> 200,
      json |-> [endpoint |-> endpoint, name |-> city, units |-> unit, fetch |-> call]],
     [status |-> 404, json |-> [cod |-> "404", message |-> "city not found"]],
     [status |-> 500, json |-> [cod |-> "500"]]}

\* dict.get(field, default)
Get(json, field, default) ==
    IF field \in DOMAIN json THEN json[field] ELSE default

\* Variant with a fault: the forecast response checked before the current one.
get_weather_data_forecastFirst(current_response, forecast_response) ==
    IF forecast_response.status # 200
    THEN [error |-> Get(forecast_response.json, "message",
                        "Error fetching forecast data.")]
    ELSE IF current_response.status # 200
    THEN [error |-> Get(current_response.json, "message",
                        "Error fetching current weather data.")]
    ELSE [current |-> current_response.json, forecast |-> forecast_response.json]

\* Variant with a fault: a failed forecast request still hands the current data on.
get_weather_data_partial(current_response, forecast_response) ==
    IF current_response.status # 200
    THEN [error |-> Get(current_response.json, "message",
                        "Error fetching current weather data.")]
    ELSE IF forecast_response.status # 200
    THEN [current |-> current_response.json,
          error |-> Get(forecast_response.json, "message",
                        "Error fetching forecast data.")]
    ELSE [current |-> current_response.json, forecast |-> forecast_response.json]

\* The value get_weather_data returns for the two responses (lines 28-36).
get_weather_data(current_response, forecast_response) ==
    IF current_response.status # 200
    THEN [error |-> Get(current_response.json, "message",
                        "Error fetching current weather data.")]
    ELSE IF forecast_response.status # 200
    THEN [error |-> Get(forecast_response.json, "message",
                        "Error fetching forecast data.")]
    ELSE [current |-> current_response.json, forecast |-> forecast_response.json]

\* Variant with a fault: entries never expire.
Live_forever(entry, now) == IF entry.present THEN {TRUE} ELSE {FALSE}

\* Variant with a fault: nothing is ever served from the cache.
Live_never(entry, now) == {FALSE}

\* Whether a read at time now finds the entry: yes before stored + ttl, no
\* after it; at exactly stored + ttl the cache library's versions differ.
Live(entry, now) ==
    IF ~entry.present THEN {FALSE}
    ELSE IF now - entry.stored < TTL THEN {TRUE}
    ELSE IF now - entry.stored = TTL THEN {TRUE, FALSE}
    ELSE {FALSE}

\* Variant with a fault: the compute lock is not consulted.
LockFree_ignored(k) == TRUE

\* The key's compute lock can be taken.
LockFree(k) == value_locks[k] = NoHolder

KeyOf(s) == ValueKey(sess[s].city, sess[s].unit)

\* if st.button("Get Weather") and city_name: data = get_weather_data(...)
Click(s) ==
    /\ sess[s].pc \in {"idle", "shown"}
    /\ calls < MaxCalls
    /\ \E city \in CityInputs, unit \in Units :
          /\ city # ""
          /\ <<city, unit>> \in Queries
          /\ sess' = [sess EXCEPT ![s] =
                [IdleSession EXCEPT !.pc = "lookup", !.city = city,
                                    !.unit = unit, !.call = calls + 1]]
    /\ calls' = calls + 1
    /\ UNCHANGED <<clock, cache, value_locks, window_gets, fmtVars, aggVars>>

\* The entry a read of key k finds and its age, as the session notes them
\* when the read decides the call (a hit, or the read under the lock).
Noted(s, k, decides) ==
    IF decides /\ cache[k].present
    THEN [sess[s] EXCEPT !.seen = cache[k], !.seen_age = clock - cache[k].stored]
    ELSE sess[s]

\* The cache read without the lock: a hit returns the stored value.
Lookup(s) ==
    /\ sess[s].pc = "lookup"
    /\ \E live \in Live(cache[KeyOf(s)], clock) :
          sess' = [sess EXCEPT ![s] =
              [Noted(s, KeyOf(s), live) EXCEPT
                        !.pc = IF live THEN "render" ELSE "lock",
                        !.data = IF live THEN cache[KeyOf(s)].value ELSE @]]
    /\ UNCHANGED <<clock, cache, value_locks, calls, window_gets, fmtVars, aggVars>>

\* with cache.compute_value_lock(value_key):
AcquireLock(s) ==
    /\ sess[s].pc = "lock"
    /\ LockFree(KeyOf(s))
    /\ value_locks' = [value_locks EXCEPT ![KeyOf(s)] = s]
    /\ sess' = [sess EXCEPT ![s] = [@ EXCEPT !.pc = "locked_lookup"]]
    /\ UNCHANGED <<clock, cache, calls, window_gets, fmtVars, aggVars>>

\* The second read, holding the lock: a hit returns the value another
\* session wrote meanwhile and releases the lock.
LockedLookup(s) ==
    /\ sess[s].pc = "locked_lookup"
    /\ \E live \in Live(cache[KeyOf(s)], clock) :
          /\ sess' = [sess EXCEPT ![s] =
                [Noted(s, KeyOf(s), TRUE) EXCEPT
                          !.pc = IF live THEN "render" ELSE "get_current",
                          !.data = IF live THEN cache[KeyOf(s)].value ELSE @]]
          /\ value_locks' = IF live
                            THEN [value_locks EXCEPT ![KeyOf(s)] = NoHolder]
                            ELSE value_locks
    /\ UNCHANGED <<clock, cache, calls, window_gets, fmtVars, aggVars>>

\* A GET for key k issued while k's entry is inside its window counts for
\* that window.
CountGet(k, endpoint) ==
    IF cache[k].present /\ clock - cache[k].stored < TTL
    THEN [window_gets EXCEPT ![k][endpoint] = @ + 1]
    ELSE window_gets

\* current_response = requests.get(CURRENT_URL, params=params)
GetCurrent(s) ==
    /\ sess[s].pc = "get_current"
    /\ \E r \in Responses("current", sess[s].city, sess[s].unit, sess[s].call) :
          sess' = [sess EXCEPT ![s] =
              [@ EXCEPT !.current_response = r, !.gets = @ \cup {"current"},
                        !.pc = "get_forecast"]]
    /\ window_gets' = CountGet(KeyOf(s), "current")
    /\ UNCHANGED <<clock, cache, value_locks, calls, fmtVars, aggVars>>

\* forecast_response = requests.get(FORECAST_URL, params=params)
GetForecast(s) ==
    /\ sess[s].pc = "get_forecast"
    /\ \E r \in Responses("forecast", sess[s].city, sess[s].unit, sess[s].call) :
          sess' = [sess EXCEPT ![s] =
              [@ EXCEPT !.forecast_response = r, !.gets = @ \cup {"forecast"},
                        !.pc = "return"]]
    /\ window_gets' = CountGet(KeyOf(s), "forecast")
    /\ UNCHANGED <<clock, cache, value_locks, calls, fmtVars, aggVars>>

\* Lines 28-36, then the cache writes the returned value for the key, to
\* live ttl seconds from now, and the lock is released.
Return(s) ==
    /\ sess[s].pc = "return"
    /\ LET value == get_weather_data(sess[s].current_response,
                                     sess[s].forecast_response)
           k == KeyOf(s)
       IN  /\ cache' = [cache EXCEPT ![k] =
                  [present |-> TRUE, stored |-> clock,
                   args |-> <<sess[s].city, sess[s].unit>>, value |-> value]]
           /\ window_gets' = [window_gets EXCEPT ![k] =
                  [e \in Endpoints |-> IF e \in sess[s].gets THEN 1 ELSE 0]]
           /\ value_locks' = [value_locks EXCEPT ![k] =
                  IF @ = s THEN NoHolder ELSE @]
           /\ sess' = [sess EXCEPT ![s] = [@ EXCEPT !.data = value, !.pc = "render"]]
    /\ UNCHANGED <<clock, calls, fmtVars, aggVars>>

\* Lines 103-176: the error alone, or the weather with the two formatted
\* times and the daily forecast table.
Render(s) ==
    /\ sess[s].pc = "render"
    /\ sess' = [sess EXCEPT ![s] =
          [IdleSession EXCEPT !.pc = "shown", !.data = sess[s].data, !.view =
              IF "error" \in DOMAIN sess[s].data
              THEN [kind |-> "error", error |-> sess[s].data.error,
                    format_calls |-> 0, forecast_calls |-> 0]
              ELSE [kind |-> "weather", error |-> "",
                    format_calls |-> 2, forecast_calls |-> 1]]]
    /\ UNCHANGED <<clock, cache, value_locks, calls, window_gets, fmtVars, aggVars>>

\* Time passes.
Tick ==
    /\ clock + TickSeconds <= MaxClock
    /\ clock' = clock + TickSeconds
    /\ UNCHANGED <<cache, value_locks, sess, calls, window_gets, fmtVars, aggVars>>

Init ==
    /\ InitApp
    /\ timestamp = 0
    /\ timezone_offset = 0
    /\ time_str = NotRun
    /\ forecast_list = <<>>
    /\ tz_local = 0
    /\ agg_pc = "input"
    /\ daily_forecast = [raised |-> "none", rows |-> <<>>]

Next ==
    \/ \E s \in Sessions : Click(s)
    \/ \E s \in Sessions : Lookup(s)
    \/ \E s \in Sessions : AcquireLock(s)
    \/ \E s \in Sessions : LockedLookup(s)
    \/ \E s \in Sessions : GetCurrent(s)
    \/ \E s \in Sessions : GetForecast(s)
    \/ \E s \in Sessions : Return(s)
    \/ \E s \in Sessions : Render(s)
    \/ Tick

Spec == Init /\ [][Next]_vars

\* What the claims speak of.
Returned(s) == sess[s].pc = "render"
OwnFetch(s) == Returned(s) /\ sess[s].gets = Endpoints
FromCache(s) == Returned(s) /\ sess[s].gets = {}
IsSuccess(v) == DOMAIN v = {"current", "forecast"}
IsError(v) == DOMAIN v = {"error"}
Fetching(s) == sess[s].pc \in {"get_current", "get_forecast", "return"}
ErrorOf(response, fallback) ==
    [error |-> IF "message" \in DOMAIN response.json
               THEN response.json.message ELSE fallback]

\* C1: a call made less than 600 s after the result for its key was stored
\* returns exactly that result and issues no GET; within one window each
\* endpoint is requested at most once for the key.
C1_ServedFromCacheInWindow ==
    /\ \A s \in Sessions :
          (Returned(s) /\ sess[s].seen.present /\ sess[s].seen_age < 600) =>
              (sess[s].data = sess[s].seen.value /\ sess[s].gets = {})
    /\ \A k \in Keys : \A e \in Endpoints : window_gets[k][e] <= 1

\* C1 witness: a call has returned, without a GET, the success result an
\* earlier call stored less than 600 s before.
C1_Witness ==
    \E s \in Sessions :
        /\ Returned(s) /\ sess[s].seen.present
        /\ sess[s].seen_age > 0 /\ sess[s].seen_age < 600
        /\ sess[s].gets = {}
        /\ IsSuccess(sess[s].data)
        /\ sess[s].data.current.fetch # sess[s].call
        /\ window_gets[KeyOf(s)] = [e \in Endpoints |-> 1]

\* C2: the result is an error alone or 'current' and 'forecast' together;
\* success only when both statuses are 200; with either status not 200 the
\* result holds the error message and nothing else, the app shows it and
\* calls neither format_unix_time nor create_forecast_dataframe.
C2_AllOrError ==
    \A s \in Sessions :
        /\ sess[s].data # NoData =>
              (IsError(sess[s].data) \/ IsSuccess(sess[s].data))
        /\ OwnFetch(s) =>
              /\ IsSuccess(sess[s].data) <=>
                    (sess[s].current_response.status = 200
                        /\ sess[s].forecast_response.status = 200)
              /\ (sess[s].current_response.status # 200
                    \/ sess[s].forecast_response.status # 200)
                    => IsError(sess[s].data)
        /\ (sess[s].pc = "shown" /\ "error" \in DOMAIN sess[s].data) =>
              /\ sess[s].view.kind = "error"
              /\ sess[s].view.error = sess[s].data.error
              /\ sess[s].view.format_calls = 0
              /\ sess[s].view.forecast_calls = 0
        /\ (sess[s].pc = "shown" /\ sess[s].view.kind = "weather") =>
              IsSuccess(sess[s].data)

\* C2 witness: the current request succeeded and the forecast request failed
\* (only then is the forecast fallback the message); the app shows the error
\* and has run neither function.
C2_Witness ==
    \E s \in Sessions :
        /\ sess[s].pc = "shown"
        /\ sess[s].data = [error |-> "Error fetching forecast data."]
        /\ sess[s].view.kind = "error"
        /\ sess[s].view.format_calls = 0
        /\ sess[s].view.forecast_calls = 0

\* C3: the error message is the 'message' field of the failing response's
\* body when present and a generic fallback otherwise; when both requests
\* fail it is the one of the current-conditions request.
C3_FirstFailingMessage ==
    \A s \in Sessions :
        OwnFetch(s) =>
            /\ sess[s].current_response.status # 200 =>
                  sess[s].data = ErrorOf(sess[s].current_response,
                                         "Error fetching current weather data.")
            /\ (sess[s].current_response.status = 200
                    /\ sess[s].forecast_response.status # 200) =>
                  sess[s].data = ErrorOf(sess[s].forecast_response,
                                         "Error fetching forecast data.")

\* C3 witness: both requests failed, the current one with a message and the
\* forecast one without, and the current one's message came back.
C3_Witness ==
    \E s \in Sessions :
        /\ OwnFetch(s)
        /\ sess[s].current_response.status # 200
        /\ sess[s].forecast_response.status # 200
        /\ "message" \in DOMAIN sess[s].current_response.json
        /\ "message" \notin DOMAIN sess[s].forecast_response.json
        /\ sess[s].data = [error |-> sess[s].current_response.json.message]

\* C9: a call made more than 600 s after the result for its key was stored
\* does not get that result: it issues both GETs anew and returns their
\* outcome; a value served from the cache was stored for the very place and
\* unit system of the call, no more than 600 s before.
C9_NoStaleNoOtherKey ==
    \A s \in Sessions :
        /\ (Returned(s) /\ sess[s].seen.present /\ sess[s].seen_age > 600) =>
              /\ sess[s].gets = Endpoints
              /\ sess[s].data = get_weather_data(sess[s].current_response,
                                                 sess[s].forecast_response)
              /\ IsSuccess(sess[s].data) =>
                    /\ sess[s].data.current.fetch = sess[s].call
                    /\ sess[s].data.forecast.fetch = sess[s].call
              /\ IsSuccess(sess[s].seen.value) => sess[s].data # sess[s].seen.value
        /\ FromCache(s) =>
              /\ sess[s].seen.present
              /\ sess[s].data = sess[s].seen.value
              /\ sess[s].seen.args = <<sess[s].city, sess[s].unit>>
              /\ sess[s].seen_age <= 600
        /\ (Returned(s) /\ IsSuccess(sess[s].data)) =>
              /\ sess[s].data.current.name = sess[s].city
              /\ sess[s].data.current.units = sess[s].unit
              /\ sess[s].data.forecast.name = sess[s].city
              /\ sess[s].data.forecast.units = sess[s].unit

\* C9 witness: a call found a success result stored more than 600 s before,
\* issued both GETs and returned their outcome, a success of its own.
C9_Witness ==
    \E s \in Sessions :
        /\ Returned(s) /\ sess[s].seen.present /\ sess[s].seen_age > 600
        /\ IsSuccess(sess[s].seen.value)
        /\ sess[s].gets = Endpoints
        /\ IsSuccess(sess[s].data)
        /\ sess[s].data.current.fetch = sess[s].call

SecondsPerDay == 86400

\* datetime.utcfromtimestamp(t): a day number since the epoch and the second
\* of that day (floor division: negative timestamps fall on earlier days).
utcfromtimestamp(t) ==
    [day |-> t \div SecondsPerDay, sec |-> t % SecondsPerDay]

\* pd.Timedelta(seconds=s), normalised as timedelta does: 0 <= seconds < 86400.
Timedelta(s) ==
    [days |-> s \div SecondsPerDay, seconds |-> s % SecondsPerDay]

\* Variant with a fault: the seconds are added without carrying whole days.
DatetimeAdd_noCarry(dt, td) ==
    [day |-> dt.day + td.days, sec |-> dt.sec + td.seconds]

\* datetime + timedelta: add the fields, carry whole days out of the seconds.
DatetimeAdd(dt, td) ==
    LET s == dt.sec + td.seconds
    IN  [day |-> dt.day + td.days + (s \div SecondsPerDay),
         sec |-> s % SecondsPerDay]

\* A two-digit, zero padded field of strftime.
Pad2(n) == IF n < 10 THEN "0" \o ToString(n) ELSE ToString(n)

\* strftime('%H:%M:%S')
strftime_HMS(dt) ==
    Pad2(dt.sec \div 3600) \o ":" \o Pad2((dt.sec % 3600) \div 60)
        \o ":" \o Pad2(dt.sec % 60)

format_unix_time(t, off) ==
    LET utc_dt   == utcfromtimestamp(t)
        local_dt == DatetimeAdd(utc_dt, Timedelta(off))
    IN  strftime_HMS(local_dt)

\* Inputs: sunrise/sunset style timestamps and UTC offsets, both signs,
\* several of them crossing midnight in either direction.
Timestamps ==
    {-86401, -1, 0, 1, 59, 3599, 43200, 86399, 86400, 1700000000, 1700031599}
Offsets ==
    {-43200, -3600, -61, -1, 0, 1, 3600, 19800, 50400, 86400}

InitFmt ==
    /\ timestamp \in Timestamps
    /\ timezone_offset \in Offsets
    /\ time_str = NotRun
    /\ forecast_list = <<>>
    /\ tz_local = 0
    /\ agg_pc = "input"
    /\ daily_forecast = [raised |-> "none", rows |-> <<>>]
    /\ InitApp

\* sunrise_time = format_unix_time(current['sys']['sunrise'], timezone_offset)
FormatTime ==
    /\ time_str = NotRun
    /\ time_str' = format_unix_time(timestamp, timezone_offset)
    /\ UNCHANGED <<timestamp, timezone_offset, aggVars, appVars>>

NextFmt == FormatTime

SpecFmt == InitFmt /\ [][NextFmt]_vars

\* The rendering the claim names: HH:MM:SS of a second of the day, two decimal
\* digits per field.
Digit(n) == <<"0", "1", "2", "3", "4", "5", "6", "7", "8", "9">>[n + 1]
TwoDigits(n) == Digit(n \div 10) \o Digit(n % 10)
ClockString(s) ==
    TwoDigits(s \div 3600) \o ":" \o TwoDigits((s % 3600) \div 60)
        \o ":" \o TwoDigits(s % 60)

\* C8: format_unix_time(t, o) equals format_unix_time(t + o, 0), and is the
\* HH:MM:SS rendering of (t + o) modulo 86400 seconds, for offsets of either
\* sign, also across midnight; format_unix_time(0, 0) is "00:00:00".
C8_OffsetShift ==
    time_str # NotRun =>
        /\ time_str = format_unix_time(timestamp + timezone_offset, 0)
        /\ time_str = ClockString((timestamp + timezone_offset) % 86400)
        /\ (timestamp = 0 /\ timezone_offset = 0 => time_str = "00:00:00")

\* C8 witness: a negative offset moved the time back across midnight and the
\* function has returned.
C8_Witness ==
    /\ time_str # NotRun
    /\ timezone_offset < 0
    /\ (timestamp % 86400) + timezone_offset < 0
    /\ (timestamp + timezone_offset) \div 86400 < timestamp \div 86400

(***************************************************************************)
(* create_forecast_dataframe (src/app.py 45-69)                            *)
(***************************************************************************)
LowerCase == <<"a", "b", "c", "d", "e", "f", "g", "h", "i", "j", "k", "l", "m",
               "n", "o", "p", "q", "r", "s", "t", "u", "v", "w", "x", "y", "z">>
UpperCase == <<"A", "B", "C", "D", "E", "F", "G", "H", "I", "J", "K", "L", "M",
               "N", "O", "P", "Q", "R", "S", "T", "U", "V", "W", "X", "Y", "Z">>

Upper(c) ==
    IF \E i \in 1..Len(LowerCase) : LowerCase[i] = c
    THEN UpperCase[CHOOSE i \in 1..Len(LowerCase) : LowerCase[i] = c]
    ELSE c
Lower(c) ==
    IF \E i \in 1..Len(UpperCase) : UpperCase[i] = c
    THEN LowerCase[CHOOSE i \in 1..Len(UpperCase) : UpperCase[i] = c]
    ELSE c

\* str.capitalize(): first character upper case, every other one lower case.
\* A description is a sequence of characters.
capitalize(s) ==
    IF s = <<>> THEN <<>>
    ELSE <<Upper(s[1])>> \o [i \in 1..(Len(s) - 1) |-> Lower(s[i + 1])]

\* datetime.fromtimestamp(dt).date(): the calendar day of dt in the process's
\* local time zone, as a day number.
fromtimestamp_date(dt, tz) == (dt + tz) \div SecondsPerDay

\* df_list: one row per entry of forecast_data['list'], in list order.
df_list(list, tz) ==
    [i \in 1..Len(list) |->
        [Time        |-> list[i].dt + tz,
         Date        |-> fromtimestamp_date(list[i].dt, tz),
         Temperature |-> list[i].temp,
         Weather     |-> capitalize(list[i].description)]]

\* pd.DataFrame(df_list).columns: the keys of the row dicts; none for no rows.
DataFrameColumns(df) ==
    IF Len(df) = 0 THEN {} ELSE {"Time", "Date", "Temperature", "Weather"}

RECURSIVE SortAscending(_)
\* The group keys in ascending order (groupby sorts its keys).
SortAscending(S) ==
    IF S = {} THEN <<>>
    ELSE LET m == CHOOSE x \in S : \A y \in S : x <= y
         IN  <<m>> \o SortAscending(S \ {m})

\* Variant with a fault: only the first unbroken run of the date, as a
\* grouping of adjacent rows would give.
GroupIndex_firstRun(df, date) ==
    {i \in 1..Len(df) :
        /\ df[i].Date = date
        /\ \A j \in 1..i : df[j].Date = date \/ \A k \in 1..j : df[k].Date # date}

\* The row positions of one group, in frame order.
GroupIndex(df, date) == {i \in 1..Len(df) : df[i].Date = date}

SeriesMax(df, I) == CHOOSE v \in {df[i].Temperature : i \in I} :
                        \A i \in I : df[i].Temperature <= v
SeriesMin(df, I) == CHOOSE v \in {df[i].Temperature : i \in I} :
                        \A i \in I : v <= df[i].Temperature
\* Variant with a fault: the group's row with the earliest Time.
SeriesFirst_earliest(df, I) ==
    df[CHOOSE i \in I : \A j \in I : df[i].Time <= df[j].Time].Weather

\* lambda x: x.iloc[0]: the group's first row in frame order.
SeriesFirst(df, I) == df[CHOOSE i \in I : \A j \in I : i <= j].Weather

\* df.groupby('Date').agg(Max_Temp=..., Min_Temp=..., Weather=...).reset_index()
groupby_agg(df) ==
    LET keys == SortAscending({df[i].Date : i \in 1..Len(df)})
    IN  [k \in 1..Len(keys) |->
            LET I == GroupIndex(df, keys[k])
            IN  [Date     |-> keys[k],
                 Max_Temp |-> SeriesMax(df, I),
                 Min_Temp |-> SeriesMin(df, I),
                 Weather  |-> SeriesFirst(df, I)]]

\* DataFrame.head(n)
head(rows, n) == SubSeq(rows, 1, IF Len(rows) < n THEN Len(rows) ELSE n)

ForecastDays == 5

\* The outcome of the call: the rows returned, or the exception raised.
\* groupby('Date') on a frame without a 'Date' column raises KeyError.
create_forecast_dataframe(list, tz) ==
    LET df == df_list(list, tz)
    IN  IF "Date" \notin DataFrameColumns(df)
        THEN [raised |-> "KeyError", rows |-> <<>>]
        ELSE [raised |-> "none", rows |-> head(groupby_agg(df), ForecastDays)]

\* Forecast samples the lists are built from: one sample on each of six
\* consecutive days, and a second, later sample of the first day with another
\* temperature and description.
MaxSamples == 6
SamplePool ==
    {[dt |-> 21600,  temp |-> 12, description |-> <<"l", "i", "g", "h", "t", " ", "r", "a", "i", "n">>],
     [dt |-> 75600,  temp |-> 9,  description |-> <<"C", "L", "E", "A", "R">>],
     [dt |-> 108000, temp |-> 15, description |-> <<"m", "i", "s", "t">>],
     [dt |-> 194400, temp |-> -3, description |-> <<"s", "n", "o", "w">>],
     [dt |-> 280800, temp |-> 15, description |-> <<"f", "o", "g">>],
     [dt |-> 367200, temp |-> 20, description |-> <<"h", "a", "z", "e">>],
     [dt |-> 453600, temp |-> 7,  description |-> <<>>]}
LocalOffsets == {0}

InitAgg ==
    /\ forecast_list = <<>>
    /\ tz_local \in LocalOffsets
    /\ agg_pc = "input"
    /\ daily_forecast = [raised |-> "none", rows |-> <<>>]
    /\ timestamp = 0
    /\ timezone_offset = 0
    /\ time_str = NotRun
    /\ InitApp

\* The provider's response holds one more sample.
AppendSample ==
    /\ agg_pc = "input"
    /\ Len(forecast_list) < MaxSamples
    /\ \E e \in SamplePool : forecast_list' = Append(forecast_list, e)
    /\ UNCHANGED <<tz_local, agg_pc, daily_forecast, fmtVars, appVars>>

\* df_forecast = create_forecast_dataframe(forecast, unit_symbol)
Aggregate ==
    /\ agg_pc = "input"
    /\ daily_forecast' = create_forecast_dataframe(forecast_list, tz_local)
    /\ agg_pc' = "done"
    /\ UNCHANGED <<forecast_list, tz_local, fmtVars, appVars>>

NextAgg == AppendSample \/ Aggregate

SpecAgg == InitAgg /\ [][NextAgg]_vars

\* What the claims speak of: the dates of the input samples and of the rows.
SampleDate(i) == fromtimestamp_date(forecast_list[i].dt, tz_local)
InputDates == {SampleDate(i) : i \in 1..Len(forecast_list)}
SamplesOf(date) == {i \in 1..Len(forecast_list) : SampleDate(i) = date}
Rows == daily_forecast.rows
RowDates == {Rows[k].Date : k \in 1..Len(Rows)}
AggReturned == agg_pc = "done" /\ daily_forecast.raised = "none"

EarliestDatesAscending ==
    /\ Len(Rows) <= 5
    /\ \A i, j \in 1..Len(Rows) : i < j => Rows[i].Date < Rows[j].Date
    /\ Len(Rows) = (IF Cardinality(InputDates) < 5 THEN Cardinality(InputDates) ELSE 5)
    /\ RowDates \subseteq InputDates
    /\ \A d \in InputDates \ RowDates : \A r \in RowDates : r < d

\* C4 (as claimed): for every input sequence the call returns at most 5 rows,
\* dates strictly ascending without repeats, the earliest min(5, distinct
\* dates) dates of the input and no other.
C4_AsClaimed ==
    agg_pc = "done" => (daily_forecast.raised = "none" /\ EarliestDatesAscending)

\* C5 (as claimed): called with an empty sample list the function returns an
\* empty sequence of rows and does not fail.
C5_AsClaimed ==
    (agg_pc = "done" /\ forecast_list = <<>>) =>
        (daily_forecast.raised = "none" /\ daily_forecast.rows = <<>>)

\* C6: in every returned row Max_Temp is the largest and Min_Temp the smallest
\* temperature among all input samples of the row's date, contiguous or not;
\* Max_Temp >= Min_Temp; both are the sample's temperature when the date has
\* one sample.
C6_MaxMinOverAllSamples ==
    AggReturned =>
        \A k \in 1..Len(Rows) :
            LET I == SamplesOf(Rows[k].Date)
            IN  /\ I # {}
                /\ \E i \in I : forecast_list[i].temp = Rows[k].Max_Temp
                /\ \E i \in I : forecast_list[i].temp = Rows[k].Min_Temp
                /\ \A i \in I : /\ forecast_list[i].temp <= Rows[k].Max_Temp
                                /\ forecast_list[i].temp >= Rows[k].Min_Temp
                /\ Rows[k].Max_Temp >= Rows[k].Min_Temp
                /\ (Cardinality(I) = 1 =>
                       \A i \in I : /\ Rows[k].Max_Temp = forecast_list[i].temp
                                    /\ Rows[k].Min_Temp = forecast_list[i].temp)

\* C6 witness: a returned row whose date has two samples of different
\* temperature separated by a sample of another date, the larger one last.
C6_Witness ==
    /\ AggReturned
    /\ \E k \in 1..Len(Rows) : \E i, j \in SamplesOf(Rows[k].Date) :
          /\ i + 1 < j
          /\ SampleDate(i + 1) # Rows[k].Date
          /\ forecast_list[i].temp < forecast_list[j].temp
          /\ Rows[k].Max_Temp = forecast_list[j].temp
          /\ Rows[k].Min_Temp < Rows[k].Max_Temp

\* C7: in every returned row Weather is the capitalized description of the
\* sample of that date that comes first in the input sequence.
C7_WeatherOfFirstInSequence ==
    AggReturned =>
        \A k \in 1..Len(Rows) :
            \E i \in SamplesOf(Rows[k].Date) :
                /\ \A j \in SamplesOf(Rows[k].Date) : i <= j
                /\ Rows[k].Weather = capitalize(forecast_list[i].description)

\* C7 witness: a returned row whose first sample in sequence order is neither
\* the one with the earliest timestamp nor the one with the highest
\* temperature, and whose label differs from the raw description.
C7_Witness ==
    /\ AggReturned
    /\ \E k \in 1..Len(Rows) : \E i, j \in SamplesOf(Rows[k].Date) :
          /\ \A m \in SamplesOf(Rows[k].Date) : i <= m
          /\ forecast_list[j].dt < forecast_list[i].dt
          /\ forecast_list[j].temp > forecast_list[i].temp
          /\ Rows[k].Weather = capitalize(forecast_list[i].description)
          /\ Rows[k].Weather # forecast_list[i].description
          /\ Rows[k].Weather # capitalize(forecast_list[j].description)

====
